---- MODULE Spec2Model ----
\* Model of the NDI output of obs-ndi (src/src/obs-ndi-output.cpp): the
\* struct ndi_output instance, the lifecycle callbacks start / update /
\* stop / destroy and the per-frame callbacks raw_video / raw_audio,
\* together with the part of the host (the obs_output calls) and of the
\* vendor library (the ndiLib send calls) that the callbacks talk to.
EXTENDS Integers, Sequences, FiniteSets, TLC

(* ---------------------------------------------------------------------- *)
(* Bounds of the explored state space                                      *)
(* ---------------------------------------------------------------------- *)
\* number of vendor senders send_create may hand out in one behaviour
MaxSenders == 2
\* number of heap blocks (conversion and audio scratch) allocated in one behaviour
MaxAllocs == 2

\* largest stride (in_linesize, and half the largest out_linesize) and
\* largest end_y of a call of the converter on its own
MaxStride == 4
MaxRows == 2

(* ---------------------------------------------------------------------- *)
(* Input domains                                                           *)
(* ---------------------------------------------------------------------- *)
NULL == 0

Names == {"A", "X"}

\* host pixel formats a video handle reports: the converted one, one of the
\* pass-through ones, and one the switch does not list
VideoFormats == {"I444", "NV12", "YUY2"}

\* what a video handle reports besides its format: width, height and the
\* frame rate as an exact fraction <<numerator, denominator>>
VideoModes == {[width |-> 2, height |-> 2, fps |-> <<24000, 1001>>]}
ZeroRate == <<0, 1>>

SampleRates == {48000}
Channels == {1, 2}
\* audio_data.frames of one raw_audio call
FrameCounts == {1, 2}
\* video_data.linesize[0] (the stride of each plane of the frame) and
\* video_data.timestamp of one raw_video call: rows without and with padding
LineSizes == {2, 4, 8}
Timestamps == {250}
\* video_data.data[0], a buffer of the host
HostPlane0 == -1

\* what obs_output_video / obs_output_audio return: NULL or a handle
NoHandle == [present |-> FALSE]
VideoHandles ==
    {NoHandle} \cup
    {[present |-> TRUE, format |-> f, width |-> m.width,
      height |-> m.height, fps |-> m.fps] :
        f \in VideoFormats, m \in VideoModes}
AudioHandles ==
    {NoHandle} \cup
    [present : {TRUE}, samplerate : SampleRates, channels : Channels]

\* settings maps handed to create and update
Settings == [ndi_name : Names, uses_video : BOOLEAN, uses_audio : BOOLEAN]

FourCC_zero == "0"
NoFunction == "nullptr"
OBS_OUTPUT_VIDEO == "OBS_OUTPUT_VIDEO"
OBS_OUTPUT_AUDIO == "OBS_OUTPUT_AUDIO"

(* ---------------------------------------------------------------------- *)
(* State                                                                   *)
(* ---------------------------------------------------------------------- *)
VARIABLES
    o,            \* the struct ndi_output instance
    destroyed,    \* the instance has been freed by destroy
    senders,      \* vendor side: the name of every sender that exists
    nsenders,     \* vendor side: number of senders send_create has made
    heap,         \* [kind, size] of every allocated block not yet released
    nallocs,      \* number of blocks allocated so far
    badFree,      \* a block was released that was not allocated
    calls,        \* what the last callback did outside the instance, in
                  \* program order: its host and vendor calls, its call of
                  \* the conversion function and, in stop, its stores to
                  \* the instance and its release of the scratch
    lastOp,       \* name of the last callback
    lastRet,      \* what the last callback returned
    lastIn,       \* the handles the host gave to the last start, or the
                  \* settings it gave to the last update
    everStarted,  \* started has been true since the last stop (or create)
    maxAudio,     \* largest raw_audio data_size seen since construction
    cv,           \* one call of convert_i444_to_uyvy: arguments and accesses
    th            \* the raw_video and the raw_audio call in progress

vars == <<o, destroyed, senders, nsenders, heap, nallocs, badFree, calls,
          lastOp, lastRet, lastIn, everStarted, maxAudio, cv, th>>

\* the empty function
Empty == [x \in {} |-> x]

\* f extended or overwritten at k
Put(f, k, v) == [x \in DOMAIN f \cup {k} |-> IF x = k THEN v ELSE f[x]]

\* f without k
Drop(f, k) == [x \in DOMAIN f \ {k} |-> f[x]]

\* a call of the host or of the vendor library: the function, the sender
\* handle passed or returned, the argument (the capture mask of
\* begin-data-capture, the frame descriptor of a send) and the result
Call(fn, h, arg, ok) == [fn |-> fn, h |-> h, arg |-> arg, ok |-> ok]

Issued(fn, cs) == \E i \in 1..Len(cs) : cs[i].fn = fn

Max(a, b) == IF a > b THEN a ELSE b

\* no call of the converter on its own, no frame callback in progress
NoConversion == [pc |-> "none"]
NoFrames == [video |-> [pc |-> "idle"], audio |-> [pc |-> "idle"]]

\* bzalloc'ed struct with the fields create sets, before update
ZeroInstance ==
    [ndi_name |-> "", uses_video |-> FALSE, uses_audio |-> FALSE,
     started |-> FALSE, ndi_sender |-> NULL,
     frame_width |-> 0, frame_height |-> 0, frame_fourcc |-> FourCC_zero,
     video_framerate |-> ZeroRate,
     audio_channels |-> 0, audio_samplerate |-> 0,
     conv_buffer |-> NULL, conv_linesize |-> 0, conv_function |-> NoFunction,
     audio_conv_buffer |-> NULL, audio_conv_buffer_size |-> 0]

(* ---------------------------------------------------------------------- *)
(* update                                                                  *)
(* ---------------------------------------------------------------------- *)
\* update that also drops the sender handle
UpdateFieldsDropsSender(inst, settings) ==
    [inst EXCEPT !.ndi_name = settings.ndi_name,
                 !.uses_video = settings.uses_video,
                 !.uses_audio = settings.uses_audio,
                 !.ndi_sender = NULL]

\* lines 237-240: the fields update assigns
UpdateFields(inst, settings) ==
    [inst EXCEPT !.ndi_name = settings.ndi_name,
                 !.uses_video = settings.uses_video,
                 !.uses_audio = settings.uses_audio]

ndi_output_create(settings) == UpdateFields(ZeroInstance, settings)

\* the state after create with settings drawn from ss
InitWith(ss) ==
    /\ \E settings \in ss : o = ndi_output_create(settings)
    /\ destroyed = FALSE
    /\ senders = Empty
    /\ nsenders = 0
    /\ heap = Empty
    /\ nallocs = 0
    /\ badFree = FALSE
    /\ calls = <<>>
    /\ lastOp = "create"
    /\ lastRet = "instance"
    /\ lastIn = NoHandle
    /\ everStarted = FALSE
    /\ maxAudio = 0
    /\ cv = NoConversion
    /\ th = NoFrames

Init == InitWith(Settings)

\* update with settings drawn from ss
UpdateWith(ss) ==
    /\ ~destroyed
    /\ \E settings \in ss :
          /\ o' = UpdateFields(o, settings)
          /\ lastIn' = settings
    /\ calls' = <<>>
    /\ lastOp' = "update"
    /\ UNCHANGED <<cv, th>>
    /\ lastRet' = "void"
    /\ UNCHANGED <<destroyed, senders, nsenders, heap, nallocs, badFree,
                   everStarted, maxAudio>>

ndi_output_update == UpdateWith(Settings)

\* ----------------------------------------------------------------------
\* start
\* ----------------------------------------------------------------------
\* start without the check of line 136
AlreadyStartedUnchecked(inst) == FALSE

\* line 136: start on a started instance is rejected
AlreadyStarted(inst) == inst.started

\* start without the check of line 145
NoMediaUnchecked(video, audio) == FALSE

\* line 145: neither handle is available
NoMedia(video, audio) == ~video.present /\ ~audio.present

\* lines 157-193 with default returning nothing: a start that goes on with
\* a format the switch does not list
FormatSwitchFallsThrough(inst, video, buf) ==
    [ok |-> TRUE,
     inst |-> IF video.format = "I444"
              THEN [inst EXCEPT !.conv_function = "convert_i444_to_uyvy",
                                !.frame_fourcc = "UYVY",
                                !.conv_linesize = video.width * 2,
                                !.conv_buffer = buf]
              ELSE IF video.format \in {"NV12", "I420", "RGBA", "BGRA", "BGRX"}
              THEN [inst EXCEPT !.frame_fourcc = video.format]
              ELSE inst]

\* lines 157-193: the switch over the host format. ok is false where the
\* default case returns false; buf is the block new[] returns for I444
FormatSwitch(inst, video, buf) ==
    CASE video.format = "I444" ->
            [ok |-> TRUE,
             inst |-> [inst EXCEPT !.conv_function = "convert_i444_to_uyvy",
                                   !.frame_fourcc = "UYVY",
                                   !.conv_linesize = video.width * 2,
                                   !.conv_buffer = buf]]
      [] video.format = "NV12" ->
            [ok |-> TRUE, inst |-> [inst EXCEPT !.frame_fourcc = "NV12"]]
      [] video.format = "I420" ->
            [ok |-> TRUE, inst |-> [inst EXCEPT !.frame_fourcc = "I420"]]
      [] video.format = "RGBA" ->
            [ok |-> TRUE, inst |-> [inst EXCEPT !.frame_fourcc = "RGBA"]]
      [] video.format = "BGRA" ->
            [ok |-> TRUE, inst |-> [inst EXCEPT !.frame_fourcc = "BGRA"]]
      [] video.format = "BGRX" ->
            [ok |-> TRUE, inst |-> [inst EXCEPT !.frame_fourcc = "BGRX"]]
      [] OTHER ->
            [ok |-> FALSE, inst |-> inst]

\* line 152 and line 201: the media start negotiates
TakesVideo(inst, video) == inst.uses_video /\ video.present
TakesAudio(inst, audio) == inst.uses_audio /\ audio.present

\* a conversion scratch of height rows of conv_linesize bytes
ConvBufferSizeSingle(width, height) == height * (width * 2)

\* lines 163-164: bytes of the conversion scratch
ConvBufferSize(width, height) == height * (width * 2) * 2

\* lines 153-198 when the switch does not return
NegotiateVideo(inst, video, buf) ==
    [FormatSwitch(inst, video, buf).inst
        EXCEPT !.frame_width = video.width,
               !.frame_height = video.height,
               !.video_framerate = video.fps]

\* lines 202-203
NegotiateAudio(inst, audio) ==
    [inst EXCEPT !.audio_samplerate = audio.samplerate,
                 !.audio_channels = audio.channels]

\* lines 141, 198, 204: the capture mask
CaptureFlags(inst, video, audio) ==
    (IF TakesVideo(inst, video) THEN {OBS_OUTPUT_VIDEO} ELSE {}) \cup
    (IF TakesAudio(inst, audio) THEN {OBS_OUTPUT_AUDIO} ELSE {})

\* started set as soon as the sender exists
StartedAfterCreate(sender, captured) == sender # NULL

\* lines 213-216: started after send_create returned sender and
\* obs_output_begin_data_capture returned captured
StartedAfter(sender, captured) == sender # NULL /\ captured

QueryCalls ==
    <<Call("obs_output_video", NULL, {}, TRUE),
      Call("obs_output_audio", NULL, {}, TRUE)>>

\* a start that returns before it changes anything (lines 136-150, 187-192)
StartRejected(cs) ==
    /\ o' = o
    /\ calls' = cs
    /\ lastRet' = "false"
    /\ UNCHANGED <<senders, nsenders, heap, nallocs>>

\* lines 152-231
StartProceeds(video, audio, createOk, captureOk) ==
    LET allocs == TakesVideo(o, video) /\ video.format = "I444"
        buf    == nallocs + 1
        v      == IF TakesVideo(o, video)
                  THEN NegotiateVideo(o, video, buf) ELSE o
        a      == IF TakesAudio(o, audio)
                  THEN NegotiateAudio(v, audio) ELSE v
        flags  == CaptureFlags(o, video, audio)
        sender == IF createOk THEN nsenders + 1 ELSE NULL
        create == Call("send_create", sender, {}, createOk)
        begin  == Call("obs_output_begin_data_capture", NULL, flags, captureOk)
    IN  /\ allocs => nallocs < MaxAllocs
        /\ createOk => nsenders < MaxSenders
        /\ heap' = IF allocs
                   THEN Put(heap, buf,
                            [kind |-> "conv",
                             size |-> ConvBufferSize(video.width,
                                                     video.height)])
                   ELSE heap
        /\ nallocs' = IF allocs THEN buf ELSE nallocs
        /\ senders' = IF createOk
                      THEN Put(senders, sender, o.ndi_name) ELSE senders
        /\ nsenders' = IF createOk THEN sender ELSE nsenders
        /\ o' = [a EXCEPT !.ndi_sender = sender,
                          !.started = IF sender # NULL
                                      THEN StartedAfter(sender, captureOk)
                                      ELSE a.started]
        /\ calls' = QueryCalls \o <<create>> \o
                    (IF sender # NULL THEN <<begin>> ELSE <<>>)
        /\ lastRet' = IF o'.started THEN "true" ELSE "false"

\* start with the host returning a video handle of vh and an audio handle
\* of ah
StartWith(vh, ah) ==
    /\ ~destroyed
    /\ IF AlreadyStarted(o)
       THEN /\ lastIn' = NoHandle
            /\ StartRejected(<<>>)
       ELSE \E video \in vh, audio \in ah :
            /\ lastIn' = [present |-> TRUE,
                          video |-> video.present,
                          format |-> IF video.present
                                     THEN video.format ELSE "",
                          audio |-> audio.present]
            /\ IF NoMedia(video, audio)
               THEN StartRejected(QueryCalls)
               ELSE IF TakesVideo(o, video) /\
                       ~FormatSwitch(o, video, nallocs + 1).ok
               THEN StartRejected(QueryCalls)
               ELSE \E createOk \in BOOLEAN :
                    \E captureOk \in IF createOk THEN BOOLEAN ELSE {FALSE} :
                       StartProceeds(video, audio, createOk, captureOk)
    /\ lastOp' = "start"
    /\ UNCHANGED <<cv, th>>
    /\ everStarted' = (everStarted \/ o'.started)
    /\ UNCHANGED <<destroyed, badFree, maxAudio>>

ndi_output_start == StartWith(VideoHandles, AudioHandles)

\* ----------------------------------------------------------------------
\* stop
\* ----------------------------------------------------------------------
\* line 247: stop on an instance that is not started returns at once
NotStarted(inst) == ~inst.started

\* lines 252-276: the fields stop assigns
StopFields(inst) ==
    [inst EXCEPT !.started = FALSE,
                 !.ndi_sender = NULL,
                 !.conv_buffer = NULL,
                 !.conv_function = IF inst.conv_buffer # NULL
                                   THEN NoFunction ELSE @,
                 !.frame_width = 0,
                 !.frame_height = 0,
                 !.video_framerate = ZeroRate,
                 !.audio_channels = 0,
                 !.audio_samplerate = 0]

\* a release that leaves the block allocated
FreeLeaks(h, b) == h

\* the block b is released
Free(h, b) == Drop(h, b)

\* a store to a field of the instance, as an entry of calls
Assign(field) == Call("store", NULL, {field}, TRUE)

\* lines 252-269 in program order: started = false, the end of the capture,
\* send_destroy and the store of nullptr to the handle when there is a
\* sender, delete and the two stores of nullptr when there is a scratch
StopCalls(inst) ==
    <<Assign("started"),
      Call("obs_output_end_data_capture", NULL, {}, TRUE)>>
    \o (IF inst.ndi_sender # NULL
        THEN <<Call("send_destroy", inst.ndi_sender, {}, TRUE),
               Assign("ndi_sender")>>
        ELSE <<>>)
    \o (IF inst.conv_buffer # NULL
        THEN <<Call("delete", NULL, {inst.conv_buffer}, TRUE),
               Assign("conv_buffer"), Assign("conv_function")>>
        ELSE <<>>)

ndi_output_stop ==
    /\ ~destroyed
    /\ IF NotStarted(o)
       THEN /\ calls' = <<>>
            /\ UNCHANGED <<o, senders, heap, badFree>>
       ELSE /\ o' = StopFields(o)
            /\ calls' = StopCalls(o)
            /\ senders' = IF o.ndi_sender # NULL
                          THEN Drop(senders, o.ndi_sender) ELSE senders
            /\ heap' = IF o.conv_buffer # NULL
                       THEN Free(heap, o.conv_buffer) ELSE heap
            /\ badFree' = (badFree \/ (o.conv_buffer # NULL /\
                                       o.conv_buffer \notin DOMAIN heap))
    /\ lastOp' = "stop"
    /\ UNCHANGED <<cv, th>>
    /\ lastRet' = "void"
    /\ lastIn' = NoHandle
    /\ everStarted' = FALSE
    /\ UNCHANGED <<destroyed, nsenders, nallocs, maxAudio>>

\* ----------------------------------------------------------------------
\* destroy
\* ----------------------------------------------------------------------
ndi_output_destroy ==
    /\ ~destroyed
    /\ heap' = IF o.audio_conv_buffer # NULL
               THEN Free(heap, o.audio_conv_buffer) ELSE heap
    /\ badFree' = (badFree \/ (o.audio_conv_buffer # NULL /\
                               o.audio_conv_buffer \notin DOMAIN heap))
    /\ o' = [o EXCEPT !.audio_conv_buffer = NULL]
    /\ destroyed' = TRUE
    /\ calls' = <<>>
    /\ lastOp' = "destroy"
    /\ UNCHANGED <<cv, th>>
    /\ lastRet' = "void"
    /\ lastIn' = NoHandle
    /\ UNCHANGED <<senders, nsenders, nallocs, everStarted, maxAudio>>

\* ----------------------------------------------------------------------
\* convert_i444_to_uyvy
\* ----------------------------------------------------------------------
\* line 27-30
min_uint32(a, b) == IF a < b THEN a ELSE b

\* the byte at offset i of the planes input[0], input[1], input[2]
PlaneByte(plane, i) ==
    CASE plane = "Y" -> 10 * (i + 1)
      [] plane = "U" -> i + 1
      [] plane = "V" -> 100 + i

\* one store *(_out++) = *(_P++): the output offset, the plane and the
\* offset read, and the byte
Store(out, plane, src) ==
    [off |-> out, plane |-> plane, src |-> src, val |-> PlaneByte(plane, src)]

\* the loop body storing luma before chroma
PairLumaFirst(pOut, pY, pU, pV) ==
    <<Store(pOut, "Y", pY), Store(pOut + 1, "U", pU),
      Store(pOut + 2, "Y", pY + 1), Store(pOut + 3, "V", pV)>>

\* lines 54-59: the four stores of one loop body, with the pointers as
\* they are when the body starts
Pair(pOut, pY, pU, pV) ==
    <<Store(pOut, "U", pU), Store(pOut + 1, "Y", pY),
      Store(pOut + 2, "V", pV), Store(pOut + 3, "Y", pY + 1)>>

\* lines 52-60: the inner loop from x on, _U and _V advancing by two and
\* _Y and _out by the stores; acc holds the stores made so far
RECURSIVE ConvPairs(_, _, _, _, _, _, _)
ConvPairs(x, width, pOut, pY, pU, pV, acc) ==
    IF x < width
    THEN ConvPairs(x + 2, width, pOut + 4, pY + 2, pU + 2, pV + 2,
                   acc \o Pair(pOut, pY, pU, pV))
    ELSE acc

\* lines 45-61: the rows from y on
RECURSIVE ConvRows(_, _, _, _, _, _)
ConvRows(y, end_y, in_linesize, out_linesize, width, acc) ==
    IF y < end_y
    THEN ConvRows(y + 1, end_y, in_linesize, out_linesize, width,
                  ConvPairs(0, width, y * out_linesize,
                            y * in_linesize[1], y * in_linesize[2],
                            y * in_linesize[3], acc))
    ELSE acc

\* lines 36-62: the stores of one call, in program order (in_linesize[1..3]
\* are the strides of the Y, U and V plane)
convert_i444_to_uyvy(in_linesize, start_y, end_y, out_linesize) ==
    ConvRows(start_y, end_y, in_linesize, out_linesize,
             min_uint32(in_linesize[1], out_linesize), <<>>)

\* the arguments of a call of the converter on its own
ConvInputs ==
    {[pc |-> "called", in_linesize |-> <<ly, lu, lv>>,
      start_y |-> sy, end_y |-> ey, out_linesize |-> lo, stores |-> <<>>] :
        ly \in 1..MaxStride, lu \in {MaxStride, MaxStride + 1},
        lv \in {MaxStride, MaxStride + 2}, lo \in 1..(2 * MaxStride),
        sy \in 0..MaxRows, ey \in 0..MaxRows}

ConvInit ==
    /\ cv \in ConvInputs
    /\ o = ZeroInstance
    /\ destroyed = FALSE
    /\ senders = Empty
    /\ nsenders = 0
    /\ heap = Empty
    /\ nallocs = 0
    /\ badFree = FALSE
    /\ calls = <<>>
    /\ lastOp = "none"
    /\ lastRet = "void"
    /\ lastIn = NoHandle
    /\ everStarted = FALSE
    /\ maxAudio = 0
    /\ th = NoFrames

Convert ==
    /\ cv.pc = "called"
    /\ cv' = [cv EXCEPT !.pc = "returned",
                        !.stores = convert_i444_to_uyvy(cv.in_linesize,
                                       cv.start_y, cv.end_y, cv.out_linesize)]
    /\ UNCHANGED <<o, destroyed, senders, nsenders, heap, nallocs, badFree,
                   calls, lastOp, lastRet, lastIn, everStarted, maxAudio, th>>

ConvNext == Convert

ConvSpec == ConvInit /\ [][ConvNext]_vars

\* ----------------------------------------------------------------------
\* raw_video
\* ----------------------------------------------------------------------
\* line 296 without the test of started
VideoGateIgnoresStarted(inst) ==
    inst.frame_width = 0 \/ inst.frame_height = 0

\* line 296: the callback returns without sending
VideoGate(inst) ==
    ~inst.started \/ inst.frame_width = 0 \/ inst.frame_height = 0

\* line 305: (int)(video_framerate * 100)
FrameRateN(rate) == (rate[1] * 100) \div rate[2]

\* lines 302-320: the descriptor handed to the vendor
VideoFrame(inst, linesize, timestamp) ==
    [xres |-> inst.frame_width,
     yres |-> inst.frame_height,
     frame_rate_N |-> FrameRateN(inst.video_framerate),
     frame_rate_D |-> 100,
     timecode |-> timestamp \div 100,
     FourCC |-> inst.frame_fourcc,
     p_data |-> IF inst.frame_fourcc = "UYVY"
                THEN inst.conv_buffer ELSE HostPlane0,
     line_stride_in_bytes |-> IF inst.frame_fourcc = "UYVY"
                              THEN inst.conv_linesize ELSE linesize]

\* the output offsets of the stores st
Offsets(st) == {st[i].off : i \in 1..Len(st)}

\* lines 313-314: the call through conv_function on rows [0, frame_height),
\* every plane of the frame having the stride linesize, with the buffer it
\* writes, the stride it is told and the offsets it stores to
ConvCall(inst, linesize) ==
    Call(inst.conv_function, NULL,
         {[out |-> inst.conv_buffer,
           out_linesize |-> inst.conv_linesize,
           writes |-> Offsets(convert_i444_to_uyvy(
                                 <<linesize, linesize, linesize>>, 0,
                                 inst.frame_height, inst.conv_linesize))]},
         TRUE)

\* line 322
VideoSend(inst, linesize, timestamp) ==
    Call("send_send_video_async_v2", inst.ndi_sender,
         {VideoFrame(inst, linesize, timestamp)}, TRUE)

\* lines 312-322: the conversion, on the UYVY path, and then the send
VideoCalls(inst, linesize, timestamp) ==
    (IF inst.frame_fourcc = "UYVY"
     THEN <<ConvCall(inst, linesize)>> ELSE <<>>)
    \o <<VideoSend(inst, linesize, timestamp)>>

ndi_output_rawvideo ==
    /\ ~destroyed
    /\ \E linesize \in LineSizes, timestamp \in Timestamps :
          /\ lastIn' = NoHandle
          /\ calls' = IF VideoGate(o)
                      THEN <<>>
                      ELSE VideoCalls(o, linesize, timestamp)
    /\ lastOp' = "raw_video"
    /\ UNCHANGED <<cv, th>>
    /\ lastRet' = "void"
    /\ UNCHANGED <<o, destroyed, senders, nsenders, heap, nallocs, badFree,
                   everStarted, maxAudio>>

\* ----------------------------------------------------------------------
\* raw_audio
\* ----------------------------------------------------------------------
\* line 330 without the test of started
AudioGateIgnoresStarted(inst) ==
    inst.audio_samplerate = 0 \/ inst.audio_channels = 0

\* line 330: the callback returns without sending
AudioGate(inst) ==
    ~inst.started \/ inst.audio_samplerate = 0 \/ inst.audio_channels = 0

\* lines 338-342: no_channels * channel_stride_in_bytes
DataSize(channels, frames) == channels * (frames * 4)

\* line 344 replacing the scratch whenever the size differs
NeedsGrowOnAnyChange(size, capacity) == size # capacity

\* line 344: the scratch is replaced
NeedsGrow(size, capacity) == size > capacity

\* lines 333-339, 358: the descriptor handed to the vendor
AudioFrame(inst, frames, buf) ==
    [sample_rate |-> inst.audio_samplerate,
     no_channels |-> inst.audio_channels,
     no_samples |-> frames,
     channel_stride_in_bytes |-> frames * 4,
     FourCC |-> "FLTP",
     p_data |-> buf]

ndi_output_rawaudio ==
    /\ ~destroyed
    /\ \E frames \in FrameCounts :
          /\ lastIn' = NoHandle
          /\ IF AudioGate(o)
             THEN /\ calls' = <<>>
                  /\ UNCHANGED <<o, heap, nallocs, badFree, maxAudio>>
             ELSE LET size == DataSize(o.audio_channels, frames)
                      grow == NeedsGrow(size, o.audio_conv_buffer_size)
                      buf  == IF grow THEN nallocs + 1
                              ELSE o.audio_conv_buffer
                      old  == IF o.audio_conv_buffer # NULL
                              THEN Free(heap, o.audio_conv_buffer) ELSE heap
                  IN  /\ grow => nallocs < MaxAllocs
                      /\ heap' = IF grow
                                 THEN Put(old, buf, [kind |-> "audio",
                                                     size |-> size])
                                 ELSE heap
                      /\ nallocs' = IF grow THEN buf ELSE nallocs
                      /\ badFree' = (badFree \/
                                     (grow /\ o.audio_conv_buffer # NULL /\
                                      o.audio_conv_buffer \notin DOMAIN heap))
                      /\ o' = IF grow
                              THEN [o EXCEPT !.audio_conv_buffer = buf,
                                             !.audio_conv_buffer_size = size]
                              ELSE o
                      /\ calls' = <<[Call("send_send_audio_v3",
                                          o.ndi_sender, {}, TRUE)
                                     EXCEPT !.arg =
                                        {AudioFrame(o, frames, buf)}]>>
                      /\ maxAudio' = Max(maxAudio,
                                         o.audio_channels * 4 * frames)
    /\ lastOp' = "raw_audio"
    /\ UNCHANGED <<cv, th>>
    /\ lastRet' = "void"
    /\ UNCHANGED <<destroyed, senders, nsenders, everStarted>>

\* ----------------------------------------------------------------------
\* The instance under every sequence of callbacks of the host
\* ----------------------------------------------------------------------
Next ==
    \/ ndi_output_update
    \/ ndi_output_start
    \/ ndi_output_stop
    \/ ndi_output_destroy
    \/ ndi_output_rawvideo
    \/ ndi_output_rawaudio

Spec == Init /\ [][Next]_vars

\* ----------------------------------------------------------------------
\* The video path alone, the host changing the mode between starts
\* ----------------------------------------------------------------------
\* the modes of the video handle: the one above and a wider, lower one
VideoPathModes ==
    VideoModes \cup {[width |-> 4, height |-> 1, fps |-> <<30, 1>>]}

VideoPathHandles ==
    {NoHandle} \cup
    {[present |-> TRUE, format |-> f, width |-> m.width,
      height |-> m.height, fps |-> m.fps] :
        f \in {"I444", "NV12"}, m \in VideoPathModes}

VideoPathSettings ==
    [ndi_name : {"A"}, uses_video : BOOLEAN, uses_audio : {FALSE}]

VideoPathInit == InitWith(VideoPathSettings)

VideoPathUpdate == UpdateWith(VideoPathSettings)

VideoPathStart == StartWith(VideoPathHandles, {NoHandle})

VideoPathNext ==
    \/ VideoPathUpdate
    \/ VideoPathStart
    \/ ndi_output_stop
    \/ ndi_output_destroy
    \/ ndi_output_rawvideo

VideoPathSpec == VideoPathInit /\ [][VideoPathNext]_vars

\* ----------------------------------------------------------------------
\* One raw_video and one raw_audio call running side by side
\* ----------------------------------------------------------------------
\* raw_video and raw_audio run on the video and on the audio thread of the
\* host, each in the steps below. The host serializes start, stop and destroy
\* and begins none of them while a frame callback is executing; update may
\* come at any point.
ConcVideoHandles ==
    {NoHandle} \cup
    {[present |-> TRUE, format |-> f, width |-> m.width,
      height |-> m.height, fps |-> m.fps] :
        f \in {"I444", "NV12"}, m \in VideoModes}

ConcAudioHandles ==
    {NoHandle} \cup [present : {TRUE}, samplerate : SampleRates, channels : {2}]

ConcSettings == [ndi_name : {"A"}, uses_video : BOOLEAN, uses_audio : BOOLEAN]

IdleFrames == th = NoFrames

\* what a step of a frame callback leaves alone besides o, heap and calls
FrameStep(op) ==
    /\ lastOp' = op
    /\ lastRet' = "void"
    /\ lastIn' = NoHandle
    /\ UNCHANGED <<destroyed, senders, nsenders, everStarted, cv>>

\* lines 296-310: the gate and the header of the descriptor
VideoBegin ==
    /\ ~destroyed
    /\ th.video.pc = "idle"
    /\ \E linesize \in LineSizes, timestamp \in Timestamps :
          th' = IF VideoGate(o)
                THEN th
                ELSE [th EXCEPT !.video =
                        [pc |-> "fill", linesize |-> linesize,
                         frame |-> [VideoFrame(o, linesize, timestamp)
                                      EXCEPT !.p_data = NULL,
                                             !.line_stride_in_bytes = 0]]]
    /\ calls' = <<>>
    /\ FrameStep("raw_video")
    /\ UNCHANGED <<o, heap, nallocs, badFree, maxAudio>>

\* lines 312-320: the conversion into the scratch, or the plane of the host
VideoFill ==
    /\ th.video.pc = "fill"
    /\ LET v == th.video
           uyvy == v.frame.FourCC = "UYVY"
       IN  /\ calls' = IF uyvy THEN <<ConvCall(o, v.linesize)>> ELSE <<>>
           /\ th' = [th EXCEPT !.video =
                       [v EXCEPT !.pc = "send",
                                 !.frame.p_data =
                                    IF uyvy THEN o.conv_buffer
                                    ELSE HostPlane0,
                                 !.frame.line_stride_in_bytes =
                                    IF uyvy THEN o.conv_linesize
                                    ELSE v.linesize]]
    /\ FrameStep("raw_video")
    /\ UNCHANGED <<o, heap, nallocs, badFree, maxAudio>>

\* line 322
VideoSubmit ==
    /\ th.video.pc = "send"
    /\ calls' = <<Call("send_send_video_async_v2", o.ndi_sender,
                       {th.video.frame}, TRUE)>>
    /\ th' = [th EXCEPT !.video = NoFrames.video]
    /\ FrameStep("raw_video")
    /\ UNCHANGED <<o, heap, nallocs, badFree, maxAudio>>

\* lines 330-342: the gate, the header of the descriptor and data_size
AudioBegin ==
    /\ ~destroyed
    /\ th.audio.pc = "idle"
    /\ \E frames \in FrameCounts :
          th' = IF AudioGate(o)
                THEN th
                ELSE [th EXCEPT !.audio =
                        [pc |-> "grow",
                         frame |-> AudioFrame(o, frames, NULL),
                         data_size |-> DataSize(o.audio_channels, frames)]]
    /\ calls' = <<>>
    /\ FrameStep("raw_audio")
    /\ UNCHANGED <<o, heap, nallocs, badFree, maxAudio>>

\* lines 344-350
AudioGrow ==
    /\ th.audio.pc = "grow"
    /\ LET size == th.audio.data_size
           grow == NeedsGrow(size, o.audio_conv_buffer_size)
           buf  == nallocs + 1
           old  == IF o.audio_conv_buffer # NULL
                   THEN Free(heap, o.audio_conv_buffer) ELSE heap
       IN  /\ grow => nallocs < MaxAllocs
           /\ heap' = IF grow
                      THEN Put(old, buf, [kind |-> "audio", size |-> size])
                      ELSE heap
           /\ nallocs' = IF grow THEN buf ELSE nallocs
           /\ badFree' = (badFree \/
                          (grow /\ o.audio_conv_buffer # NULL /\
                           o.audio_conv_buffer \notin DOMAIN heap))
           /\ o' = IF grow
                   THEN [o EXCEPT !.audio_conv_buffer = buf,
                                  !.audio_conv_buffer_size = size]
                   ELSE o
           /\ maxAudio' = Max(maxAudio, size)
    /\ calls' = <<>>
    /\ th' = [th EXCEPT !.audio.pc = "copy"]
    /\ FrameStep("raw_audio")

\* lines 352-358: one memcpy for each channel, then p_data
AudioCopy ==
    /\ th.audio.pc = "copy"
    /\ LET f == th.audio.frame
       IN  calls' = [i \in 1..f.no_channels |->
                       Call("memcpy", NULL,
                            {[dst |-> o.audio_conv_buffer,
                              off |-> (i - 1) * f.channel_stride_in_bytes,
                              len |-> f.channel_stride_in_bytes]}, TRUE)]
    /\ th' = [th EXCEPT !.audio.pc = "send",
                        !.audio.frame.p_data = o.audio_conv_buffer]
    /\ FrameStep("raw_audio")
    /\ UNCHANGED <<o, heap, nallocs, badFree, maxAudio>>

\* line 360
AudioSubmit ==
    /\ th.audio.pc = "send"
    /\ calls' = <<Call("send_send_audio_v3", o.ndi_sender,
                       {th.audio.frame}, TRUE)>>
    /\ th' = [th EXCEPT !.audio = NoFrames.audio]
    /\ FrameStep("raw_audio")
    /\ UNCHANGED <<o, heap, nallocs, badFree, maxAudio>>

ConcInit == InitWith(ConcSettings)

ConcUpdate == UpdateWith(ConcSettings)

ConcStart == IdleFrames /\ StartWith(ConcVideoHandles, ConcAudioHandles)

ConcStop == IdleFrames /\ ndi_output_stop

ConcDestroy == IdleFrames /\ ndi_output_destroy

ConcNext ==
    \/ ConcUpdate
    \/ ConcStart
    \/ ConcStop
    \/ ConcDestroy
    \/ VideoBegin
    \/ VideoFill
    \/ VideoSubmit
    \/ AudioBegin
    \/ AudioGrow
    \/ AudioCopy
    \/ AudioSubmit

ConcSpec == ConcInit /\ [][ConcNext]_vars

\* ----------------------------------------------------------------------
\* Properties
\* ----------------------------------------------------------------------
\* the last callback was a start that got past the check of started, with
\* the handles named in lastIn
StartQueried == lastOp = "start" /\ lastIn.present

\* the calls cs hold a send_create that returned a sender
Created(cs) == \E i \in 1..Len(cs) : cs[i].fn = "send_create" /\ cs[i].h # NULL

\* the calls cs hold a begin-data-capture that succeeded
Captured(cs) ==
    \E i \in 1..Len(cs) : cs[i].fn = "obs_output_begin_data_capture" /\ cs[i].ok

\* C1: a raw_video or raw_audio call made while started is false issues no
\* vendor send call (no call at all) and changes nothing of the instance,
\* of the vendor's senders or of the heap.
StartedGating ==
    [][(lastOp' \in {"raw_video", "raw_audio"} /\ ~o.started) =>
          /\ calls' = <<>>
          /\ o' = o
          /\ UNCHANGED <<senders, nsenders, heap, nallocs>>]_vars

\* a raw_video call was dropped on an instance that is not started although
\* a failed start left it a frame size and a sender
StartedGatingWitness ==
    /\ lastOp = "raw_video"
    /\ ~o.started
    /\ o.frame_width # 0 /\ o.frame_height # 0
    /\ o.ndi_sender # NULL
    /\ calls = <<>>

\* C2: start on a started instance returns false, issues no send_create (no
\* call at all) and changes no field; stop on an instance that is not
\* started issues no host or vendor call and changes no field.
RedundantTransitions ==
    [][/\ (lastOp' = "start" /\ o.started) =>
             /\ lastRet' = "false"
             /\ ~Issued("send_create", calls')
             /\ calls' = <<>>
             /\ o' = o
             /\ UNCHANGED <<senders, nsenders, heap, nallocs>>
       /\ (lastOp' = "stop" /\ ~o.started) =>
             /\ calls' = <<>>
             /\ o' = o
             /\ UNCHANGED <<senders, nsenders, heap, nallocs>>]_vars

\* a start was rejected on a running instance
RedundantTransitionsWitness ==
    /\ lastOp = "start"
    /\ lastRet = "false"
    /\ o.started
    /\ o.ndi_sender \in DOMAIN senders

\* C3: after any stop the sender handle and the conversion scratch are null
\* and width, height, frame rate, pixel code, sample rate and channel count
\* are zero, while the audio scratch pointer and capacity are as before.
StopSymmetry ==
    [][lastOp' = "stop" =>
          /\ o'.ndi_sender = NULL
          /\ o'.conv_buffer = NULL
          /\ o'.frame_width = 0
          /\ o'.frame_height = 0
          /\ o'.video_framerate = ZeroRate
          /\ o'.frame_fourcc = FourCC_zero
          /\ o'.audio_samplerate = 0
          /\ o'.audio_channels = 0
          /\ o'.audio_conv_buffer = o.audio_conv_buffer
          /\ o'.audio_conv_buffer_size = o.audio_conv_buffer_size]_vars

\* C4: before destroy the sender handle is non-null exactly when started has
\* been true since the most recent stop (or since creation).
SenderHandleInvariant ==
    ~destroyed => ((o.ndi_sender # NULL) <=> everStarted)

\* C5: the conversion scratch is non-null exactly when the stored pixel code
\* is UYVY.
ConvScratchInvariant ==
    (o.conv_buffer # NULL) <=> (o.frame_fourcc = "UYVY")

\* C6: the audio scratch capacity is the largest channels * 4 * frames of
\* the audio frames sent so far (so it never decreases and covers every
\* frame seen), and the scratch, when there is one, is a live block of that
\* capacity.
AudioScratchMonotonic ==
    /\ o.audio_conv_buffer_size = maxAudio
    /\ (o.audio_conv_buffer # NULL /\ ~destroyed) =>
          /\ o.audio_conv_buffer \in DOMAIN heap
          /\ heap[o.audio_conv_buffer].size = o.audio_conv_buffer_size
    /\ (lastOp = "raw_audio" /\ calls # <<>>) =>
          \A f \in calls[1].arg :
             f.no_channels * 4 * f.no_samples <= o.audio_conv_buffer_size

\* an audio frame smaller than the scratch was sent after the scratch had
\* been replaced by a larger one
AudioScratchMonotonicWitness ==
    /\ lastOp = "raw_audio"
    /\ calls # <<>>
    /\ nallocs >= 2
    /\ \E f \in calls[1].arg :
          /\ f.no_channels * 4 * f.no_samples < o.audio_conv_buffer_size
          /\ f.p_data = o.audio_conv_buffer
    /\ heap[o.audio_conv_buffer].kind = "audio"

\* C7 as stated: start returns false, leaves the instance idle and issues no
\* send_create whenever (uses_video is false or there is no video handle) and
\* (uses_audio is false or there is no audio handle).
StartGuardEnabledMedia ==
    (StartQueried /\ (~o.uses_video \/ ~lastIn.video)
                  /\ (~o.uses_audio \/ ~lastIn.audio)) =>
       /\ lastRet = "false"
       /\ ~o.started
       /\ ~Issued("send_create", calls)

\* C7 amended: start on an instance that is not started returns false,
\* changes nothing and issues no send_create when the host returns neither
\* handle, whatever uses_video and uses_audio are; when a handle is present
\* but no enabled medium is available, start is not rejected and issues
\* send_create, with an empty capture mask for begin-data-capture.
StartGuardNoHandles ==
    [][(lastOp' = "start" /\ lastIn'.present) =>
          /\ (~lastIn'.video /\ ~lastIn'.audio) =>
                /\ lastRet' = "false"
                /\ o' = o
                /\ ~Issued("send_create", calls')
                /\ UNCHANGED <<senders, nsenders, heap, nallocs>>
          /\ ((lastIn'.video \/ lastIn'.audio)
                 /\ (~o.uses_video \/ ~lastIn'.video)
                 /\ (~o.uses_audio \/ ~lastIn'.audio)) =>
                /\ Issued("send_create", calls')
                /\ \A i \in 1..Len(calls') :
                      calls'[i].fn = "obs_output_begin_data_capture" =>
                         calls'[i].arg = {}]_vars

\* a start with both media enabled was rejected because the host returned
\* neither handle
StartGuardNoHandlesWitness ==
    /\ StartQueried
    /\ ~lastIn.video /\ ~lastIn.audio
    /\ o.uses_video /\ o.uses_audio
    /\ lastRet = "false"
    /\ ~o.started

\* C8: with uses_video true and a video handle whose format is none of I444,
\* NV12, I420, RGBA, BGRA, BGRX, start returns false, issues neither
\* send_create nor begin-data-capture and changes no field, no sender and
\* no block.
UnsupportedFormat ==
    [][(lastOp' = "start" /\ lastIn'.present /\ o.uses_video /\ lastIn'.video
          /\ lastIn'.format \notin
                {"I444", "NV12", "I420", "RGBA", "BGRA", "BGRX"}) =>
          /\ lastRet' = "false"
          /\ ~Issued("send_create", calls')
          /\ ~Issued("obs_output_begin_data_capture", calls')
          /\ o' = o
          /\ UNCHANGED <<senders, nsenders, heap, nallocs>>]_vars

\* a start with video enabled was rejected for its format while an audio
\* handle was there
UnsupportedFormatWitness ==
    /\ StartQueried
    /\ o.uses_video /\ lastIn.video /\ lastIn.audio /\ o.uses_audio
    /\ lastIn.format = "YUY2"
    /\ lastRet = "false"
    /\ ~o.started

\* C9: start on an instance that is not started returns true exactly when
\* send_create returned a sender and begin-data-capture succeeded, and
\* started is what it returns; when send_create fails the handle is null;
\* when begin-data-capture fails the sender just created stays in the
\* instance and is not destroyed.
StartOutcome ==
    [][(lastOp' = "start" /\ ~o.started) =>
          /\ (lastRet' = "true") <=> (Created(calls') /\ Captured(calls'))
          /\ o'.started <=> (lastRet' = "true")
          /\ (Issued("send_create", calls') /\ ~Created(calls')) =>
                /\ lastRet' = "false"
                /\ o'.ndi_sender = NULL
          /\ (Created(calls') /\ ~Captured(calls')) =>
                /\ lastRet' = "false"
                /\ ~o'.started
                /\ o'.ndi_sender = nsenders'
                /\ nsenders' = nsenders + 1
                /\ o'.ndi_sender \in DOMAIN senders'
                /\ ~Issued("send_destroy", calls')]_vars

\* a start failed at begin-data-capture and left its sender in the instance
StartOutcomeWitness ==
    /\ lastOp = "start"
    /\ lastRet = "false"
    /\ Created(calls)
    /\ ~Captured(calls)
    /\ Issued("obs_output_begin_data_capture", calls)
    /\ o.ndi_sender \in DOMAIN senders
    /\ ~o.started

\* C10: update on a running instance sets name, uses_video and uses_audio
\* from the settings and nothing else, issues no call and leaves the senders
\* (and the name of the live one) as they are; every send_create that returns
\* a sender gives it the name the instance holds at that start.
UpdateWhileRunning ==
    [][/\ (lastOp' = "update" /\ o.started) =>
             /\ calls' = <<>>
             /\ o' = [o EXCEPT !.ndi_name = lastIn'.ndi_name,
                               !.uses_video = lastIn'.uses_video,
                               !.uses_audio = lastIn'.uses_audio]
             /\ o'.ndi_sender \in DOMAIN senders'
             /\ UNCHANGED <<senders, nsenders, heap, nallocs>>
       /\ (lastOp' = "start" /\ Created(calls')) =>
             /\ o'.ndi_sender \notin DOMAIN senders
             /\ senders'[o'.ndi_sender] = o.ndi_name
             /\ o'.ndi_name = o.ndi_name]_vars

\* an update renamed a running instance and its sender kept the old name
UpdateWhileRunningWitness ==
    /\ lastOp = "update"
    /\ o.started
    /\ o.ndi_sender \in DOMAIN senders
    /\ senders[o.ndi_sender] = "A"
    /\ o.ndi_name = "X"

\* the byte the output holds at offset off after the stores st (the last
\* store to off), or -1 when none of them went there
RECURSIVE Final(_, _)
Final(st, off) ==
    IF st = <<>> THEN -1
    ELSE IF st[Len(st)].off = off THEN st[Len(st)].val
    ELSE Final(SubSeq(st, 1, Len(st) - 1), off)

\* the stores st put byte val at offset off
Stored(st, off, val) ==
    \E i \in 1..Len(st) : st[i].off = off /\ st[i].val = val

\* sample x of row y of a plane with the given stride
Sample(plane, stride, y, x) == PlaneByte(plane, y * stride + x)

\* effective width of the conversion in cv
EffectiveWidth ==
    IF cv.in_linesize[1] < cv.out_linesize
    THEN cv.in_linesize[1] ELSE cv.out_linesize

\* C12: for every row y of [start_y, end_y) and every even x below the
\* effective width the converter stores U[y][x], Y[y][x], V[y][x], Y[y][x+1]
\* at the output offsets y * out_linesize + 2x .. + 3; with all input strides
\* 4, rows [0, 2) and output stride 8 the output holds
\* 1,10,100,20,3,30,102,40 and 5,50,104,60,7,70,106,80.
UyvyByteOrder ==
    cv.pc = "returned" =>
       /\ \A y \in cv.start_y..(cv.end_y - 1) :
          \A x \in 0..(EffectiveWidth - 1) :
             x % 2 = 0 =>
                LET off == y * cv.out_linesize + 2 * x
                IN  /\ Stored(cv.stores, off,
                              Sample("U", cv.in_linesize[2], y, x))
                    /\ Stored(cv.stores, off + 1,
                              Sample("Y", cv.in_linesize[1], y, x))
                    /\ Stored(cv.stores, off + 2,
                              Sample("V", cv.in_linesize[3], y, x))
                    /\ Stored(cv.stores, off + 3,
                              Sample("Y", cv.in_linesize[1], y, x + 1))
       /\ (cv.in_linesize = <<4, 4, 4>> /\ cv.start_y = 0 /\ cv.end_y = 2
             /\ cv.out_linesize = 8) =>
             /\ [i \in 1..8 |-> Final(cv.stores, i - 1)]
                   = <<1, 10, 100, 20, 3, 30, 102, 40>>
             /\ [i \in 1..8 |-> Final(cv.stores, 8 + i - 1)]
                   = <<5, 50, 104, 60, 7, 70, 106, 80>>

\* the 4x2 conversion with input strides 4 and output stride 8 has returned
UyvyByteOrderWitness ==
    /\ cv.pc = "returned"
    /\ cv.in_linesize = <<4, 4, 4>>
    /\ cv.start_y = 0 /\ cv.end_y = 2
    /\ cv.out_linesize = 8
    /\ Len(cv.stores) = 16

\* C13: in every row the converter stores exactly min(in_linesize[0],
\* out_linesize) bytes rounded down to an even number of luma samples, reads
\* no sample at an index at or beyond the effective width, and stores
\* nothing at an offset at or beyond out_linesize * end_y.
ConverterWidthClip ==
    cv.pc = "returned" =>
       /\ Len(cv.stores) =
             (IF cv.start_y < cv.end_y THEN cv.end_y - cv.start_y ELSE 0)
                * (EffectiveWidth - (EffectiveWidth % 2))
       /\ \A i \in 1..Len(cv.stores) :
             LET st == cv.stores[i]
                 stride == CASE st.plane = "Y" -> cv.in_linesize[1]
                             [] st.plane = "U" -> cv.in_linesize[2]
                             [] st.plane = "V" -> cv.in_linesize[3]
             IN  /\ st.src % stride < EffectiveWidth
                 /\ st.off < cv.out_linesize * cv.end_y

\* the audio scratch blocks that are allocated and not released
AudioBlocks == {b \in DOMAIN heap : heap[b].kind = "audio"}

\* C11: no block is released twice; until destroy the only audio scratch
\* block not yet released is the one the instance points to (every one that
\* raw_audio replaced has been released, and no stop has released the current
\* one); once destroy has run, whether the instance was started or not, no
\* audio scratch block is left.
AudioScratchFreedOnce ==
    /\ ~badFree
    /\ ~destroyed => AudioBlocks = {o.audio_conv_buffer} \ {NULL}
    /\ destroyed => AudioBlocks = {}
    /\ (lastOp = "stop" /\ o.audio_conv_buffer # NULL) =>
          o.audio_conv_buffer \in DOMAIN heap

\* destroy ran on a started instance, never stopped since, that held an
\* audio scratch of more than one sample, after two allocations
AudioScratchFreedOnceWitness ==
    /\ lastOp = "destroy"
    /\ destroyed
    /\ o.started
    /\ nallocs >= 2
    /\ o.audio_conv_buffer_size = maxAudio
    /\ maxAudio > DataSize(1, 1)
    /\ \A b \in DOMAIN heap : heap[b].kind = "conv"

\* the send of a video frame among the calls cs, if any
VideoSends(cs) ==
    {i \in 1..Len(cs) : cs[i].fn = "send_send_video_async_v2"}

\* the entries of cs that store into block b: calls of the conversion
\* function with b as output
WritesTo(cs, b) ==
    {i \in 1..Len(cs) :
        /\ cs[i].fn \in {"convert_i444_to_uyvy", NoFunction}
        /\ \E c \in cs[i].arg : c.out = b /\ c.writes # {}}

\* C14: when a raw_video call has handed the block B to the vendor in an
\* asynchronous send on sender S, the callback that follows does not
\* release B unless S is destroyed by then, and, when it is a raw_video
\* call, does not store into B before it has issued its own send on S.
AsyncBufferRetention ==
    [][(lastOp = "raw_video" /\ calls # <<>>) =>
          \A k \in VideoSends(calls) : \A f \in calls[k].arg :
             LET B == f.p_data
                 S == calls[k].h
             IN  /\ (B \in DOMAIN heap /\ B \notin DOMAIN heap') =>
                        S \notin DOMAIN senders'
                 /\ \A i \in WritesTo(calls', B) :
                        \E j \in VideoSends(calls') :
                           j < i /\ calls'[j].h = S]_vars

\* the place of an entry of stop in the order the claim gives: started set
\* false, capture ended, sender destroyed, handle nulled, scratch freed
StopRank(c) ==
    CASE c.fn = "store" /\ c.arg = {"started"} -> 1
      [] c.fn = "obs_output_end_data_capture" -> 2
      [] c.fn = "send_destroy" -> 3
      [] c.fn = "store" /\ c.arg = {"ndi_sender"} -> 4
      [] c.fn = "delete" -> 5
      [] OTHER -> 6

\* the conversion scratch blocks a step releases
ConvFreed == {b \in DOMAIN heap : heap[b].kind = "conv" /\ b \notin DOMAIN heap'}

\* C15: a conversion scratch is released only by stop on a started instance;
\* stop on a started instance sets started false, ends the capture, destroys
\* the sender and nulls the handle, and only then frees the scratch; and
\* when a scratch is freed no sender created by send_create is left alive.
TeardownOrdering ==
    [][/\ ConvFreed # {} => (lastOp' = "stop" /\ o.started)
       /\ (lastOp' = "stop" /\ o.started) =>
             /\ StopRank(calls'[1]) = 1
             /\ StopRank(calls'[2]) = 2
             /\ o.ndi_sender # NULL =>
                   \E i \in 1..Len(calls') :
                      /\ StopRank(calls'[i]) = 3
                      /\ calls'[i].h = o.ndi_sender
             /\ \A i, j \in 1..Len(calls') :
                   i < j => StopRank(calls'[i]) <= StopRank(calls'[j])
             /\ ~o'.started /\ o'.ndi_sender = NULL /\ o'.conv_buffer = NULL
       /\ ConvFreed # {} => DOMAIN senders' = {}]_vars

\* n / d rounded to the nearest integer (n >= 0, d > 0)
Round(n, d) == (2 * n + d) \div (2 * d)

\* C17: every video send carries frame_rate_D = 100 and frame_rate_N =
\* round(f * 100) for the negotiated frame rate f (2398 for 24000/1001).
FrameRateDescriptor ==
    (lastOp = "raw_video" /\ calls # <<>>) =>
       \A k \in VideoSends(calls) : \A f \in calls[k].arg :
          /\ f.frame_rate_D = 100
          /\ f.frame_rate_N = Round(o.video_framerate[1] * 100,
                                    o.video_framerate[2])
          /\ o.video_framerate = <<24000, 1001>> => f.frame_rate_N = 2398

\* C18: at most one sender is alive at every point, send_create is never
\* called while the instance holds a non-null handle, and no sender is
\* alive once the instance is destroyed.
NoSenderLeak ==
    [][/\ Cardinality(DOMAIN senders') <= 1
       /\ (lastOp' = "start" /\ Issued("send_create", calls')) =>
             o.ndi_sender = NULL
       /\ destroyed' => DOMAIN senders' = {}]_vars

\* raw_video called now would take the conversion branch (lines 296, 312)
TakesConversionBranch ==
    /\ ~destroyed
    /\ ~VideoGate(o)
    /\ o.frame_fourcc = "UYVY"

\* C19: whenever raw_video would take the conversion branch, the conversion
\* function and the scratch are non-null, the scratch is an allocated block
\* of frame_height * conv_linesize * 2 bytes, conv_linesize being twice the
\* current frame_width; and every raw_video call that took the branch,
\* whatever the stride of the frame, called that function on that scratch
\* and stored only at offsets inside the block.
ConversionPathSafety ==
    /\ TakesConversionBranch =>
          /\ o.conv_function # NoFunction
          /\ o.conv_buffer # NULL
          /\ o.conv_buffer \in DOMAIN heap
          /\ heap[o.conv_buffer].kind = "conv"
          /\ heap[o.conv_buffer].size =
                o.frame_height * o.conv_linesize * 2
          /\ o.conv_linesize = o.frame_width * 2
    /\ (lastOp = "raw_video" /\ calls # <<>> /\ o.frame_fourcc = "UYVY") =>
          /\ Len(calls) = 2
          /\ calls[1].fn = "convert_i444_to_uyvy"
          /\ \A c \in calls[1].arg :
                /\ c.out = o.conv_buffer
                /\ c.out \in DOMAIN heap
                /\ c.writes # {}
                /\ \A w \in c.writes : 0 <= w /\ w < heap[c.out].size

\* a raw_video call converted a frame of the 4x1 mode with padded rows into
\* the second scratch allocated (an earlier start had allocated the first):
\* its stores went past frame_height * conv_linesize and reached the last
\* byte of the block
ConversionPathSafetyWitness ==
    /\ lastOp = "raw_video"
    /\ Len(calls) = 2
    /\ o.frame_fourcc = "UYVY"
    /\ o.frame_width = 4
    /\ o.conv_buffer = 2
    /\ \E c \in calls[1].arg :
          /\ \E w \in c.writes : w >= o.frame_height * o.conv_linesize
          /\ heap[c.out].size - 1 \in c.writes

\* the capture mask of the begin-data-capture among the calls cs
FlagsOf(cs) ==
    UNION {cs[i].arg : i \in {j \in 1..Len(cs) :
                                cs[j].fn = "obs_output_begin_data_capture"}}

\* C20: right after the start that made the instance Running, width, height,
\* pixel code and conversion scratch are non-zero only if that start had
\* video in its capture mask, sample rate and channel count only if it had
\* audio; and a raw_video (raw_audio) call that follows issues a send only
\* if video (audio) was in that mask.
NoStaleNegotiatedState ==
    [][(lastOp = "start" /\ lastRet = "true") =>
          /\ (o.frame_width # 0 \/ o.frame_height # 0
                 \/ o.frame_fourcc # FourCC_zero \/ o.conv_buffer # NULL) =>
                OBS_OUTPUT_VIDEO \in FlagsOf(calls)
          /\ (o.audio_samplerate # 0 \/ o.audio_channels # 0) =>
                OBS_OUTPUT_AUDIO \in FlagsOf(calls)
          /\ (lastOp' = "raw_video" /\ calls' # <<>>) =>
                OBS_OUTPUT_VIDEO \in FlagsOf(calls)
          /\ (lastOp' = "raw_audio" /\ calls' # <<>>) =>
                OBS_OUTPUT_AUDIO \in FlagsOf(calls)]_vars

\* the sends of frames among the calls cs
FrameSends(cs) ==
    {i \in 1..Len(cs) :
        cs[i].fn \in {"send_send_video_async_v2", "send_send_audio_v3"}}

\* the handle a send_create among the calls cs returned
CreatedHandles(cs) ==
    {cs[i].h : i \in {j \in 1..Len(cs) : cs[j].fn = "send_create"}}

\* C16: with start, stop and destroy running only while no frame callback
\* executes, in every interleaving of a raw_video and a raw_audio call:
\* a successful start leaves in the instance the sender its send_create
\* returned, the handle stays the same and alive for as long as the
\* instance stays started, and every send of a frame is issued on a started
\* instance with that handle, which is non-null and not destroyed; a step
\* of raw_video changes no field and no block and stores only into the
\* live conversion scratch; a step of raw_audio changes only the audio
\* scratch pointer and capacity and the audio blocks, and stores only into
\* the live audio scratch, which is not the conversion scratch.
SendSafety ==
    [][/\ (lastOp' = "start" /\ lastRet' = "true") =>
             /\ CreatedHandles(calls') = {o'.ndi_sender}
             /\ o'.ndi_sender \notin DOMAIN senders
       /\ (o.started /\ o'.started) =>
             /\ o'.ndi_sender = o.ndi_sender
             /\ ~(lastOp' = "start" /\ lastRet' = "true")
       /\ o'.started =>
             /\ o'.ndi_sender # NULL
             /\ o'.ndi_sender \in DOMAIN senders'
       /\ \A i \in FrameSends(calls') :
             /\ o.started
             /\ calls'[i].h = o.ndi_sender
             /\ calls'[i].h # NULL
             /\ calls'[i].h \in DOMAIN senders
             /\ calls'[i].h \in DOMAIN senders'
       /\ lastOp' = "raw_video" =>
             /\ o' = o
             /\ heap' = heap
             /\ th'.audio = th.audio
             /\ \A i \in 1..Len(calls') :
                   calls'[i].fn \notin {"send_send_video_async_v2"} =>
                      /\ calls'[i].fn = "convert_i444_to_uyvy"
                      /\ \A c \in calls'[i].arg :
                            /\ c.out = o.conv_buffer
                            /\ c.out \in DOMAIN heap
                            /\ heap[c.out].kind = "conv"
                            /\ c.out # o.audio_conv_buffer
                            /\ \A w \in c.writes : w < heap[c.out].size
       /\ lastOp' = "raw_audio" =>
             /\ o' = [o EXCEPT
                        !.audio_conv_buffer = o'.audio_conv_buffer,
                        !.audio_conv_buffer_size = o'.audio_conv_buffer_size]
             /\ \A b \in DOMAIN heap \cup DOMAIN heap' :
                   (b \notin DOMAIN heap \/ b \notin DOMAIN heap'
                      \/ heap[b] # heap'[b]) =>
                      /\ b \in {o.audio_conv_buffer, o'.audio_conv_buffer}
                      /\ b # o.conv_buffer
             /\ th'.video = th.video
             /\ \A i \in 1..Len(calls') :
                   calls'[i].fn \notin {"send_send_audio_v3"} =>
                      /\ calls'[i].fn = "memcpy"
                      /\ \A c \in calls'[i].arg :
                            /\ c.dst = o.audio_conv_buffer
                            /\ c.dst \in DOMAIN heap
                            /\ heap[c.dst].kind = "audio"
                            /\ c.dst # o.conv_buffer
                            /\ c.off + c.len <= heap[c.dst].size]_vars

\* the audio callback has sent its frame while the video callback, past its
\* conversion, has not yet sent its own; the sender is the second one
\* created (the first start had failed)
SendSafetyWitness ==
    /\ lastOp = "raw_audio"
    /\ Len(calls) = 1
    /\ calls[1].fn = "send_send_audio_v3"
    /\ calls[1].h = 2
    /\ th.video.pc = "send"
    /\ th.video.frame.FourCC = "UYVY"
    /\ th.video.frame.p_data = o.conv_buffer
    /\ o.audio_conv_buffer \in DOMAIN heap

====
